---- MODULE Spec2Model ----
(***************************************************************************)
(* State-machine model of the VozaTexto client: the App component          *)
(* (src/App.tsx), the AudioRecorder component (src/unnamed/part_000, which  *)
(* App imports as ./components/AudioRecorder) and the transcription client  *)
(* (src/services/geminiService.ts).                                         *)
(*                                                                          *)
(* A JavaScript object is a TLA+ record whose domain is the set of keys     *)
(* that hold a defined value: a key that is absent or holds `undefined' is  *)
(* not in the domain.  Times of segments are in whole milliseconds.  A blob *)
(* URL "blob:n" is the number n.  Every handler (an event callback, or the  *)
(* part of an async function between two awaits) is one action; React       *)
(* applies the state updates of a handler together.                         *)
(***************************************************************************)
EXTENDS Integers, Sequences, FiniteSets

(***************************** bounds **************************************)
\* Cycles (record clicks + accepted uploads) started in one run.
MaxCycles == 2
\* Largest value the one-second counter recordingTime is followed to.
MaxTicks == 1
\* Segments of an answer whose subtitles and playback are followed.
MaxSegments == 2
\* Largest playback time (in milliseconds) the audio element reports while
\* the recordings and uploads are followed.
MaxTime == 1

(************************* JavaScript values *******************************)
EmptyObj == [k \in {} |-> 0]

\* The keys of a TranscriptionEntry, in the order of the object literal.
EntryKeys == <<"id", "text", "segments", "timestamp", "duration", "audioUrl">>

Digits == <<"0", "1", "2", "3", "4", "5", "6", "7", "8", "9">>

\* Number.prototype.toString for a natural number.
RECURSIVE NumToString(_)
NumToString(n) ==
    IF n < 10 THEN Digits[n + 1]
    ELSE NumToString(n \div 10) \o Digits[(n % 10) + 1]

\* Variant: String.prototype.includes in place of startsWith.
Includes(s, p) ==
    \E i \in 1..(Len(s) - Len(p) + 1) : SubSeq(s, i, i + Len(p) - 1) = p

\* String.prototype.startsWith, strings being sequences of characters.
StartsWith(s, p) == Len(s) >= Len(p) /\ SubSeq(s, 1, Len(p)) = p

AudioPrefix == <<"a", "u", "d", "i", "o", "/">>

\* Variant: the entry is persisted as it is, { ...e }.
KeepAudioUrl(e) == e

\* { ...e, audioUrl: undefined }
StripAudioUrl(e) == [k \in (DOMAIN e) \ {"audioUrl"} |-> e[k]]

\* array.map(e => ({ ...e, audioUrl: undefined }))
MapStrip(h) == [i \in 1..Len(h) |-> StripAudioUrl(h[i])]

(***************************** JSON ****************************************)
\* The text JSON.stringify gives for an object: its defined keys, in order,
\* each with its value.  The text is kept as the sequence of <<key, value>>.
RECURSIVE StringifyKeys(_, _)
StringifyKeys(obj, keys) ==
    IF keys = <<>> THEN <<>>
    ELSE IF Head(keys) \in DOMAIN obj
         THEN <<(<<Head(keys), obj[Head(keys)]>>)>> \o StringifyKeys(obj, Tail(keys))
         ELSE StringifyKeys(obj, Tail(keys))

\* Variant: a replacer that leaves out a number that is falsy (a duration
\* of 0).
StringifyTruthy(e) ==
    StringifyKeys([k \in {x \in DOMAIN e : ~(x \in {"timestamp", "duration"} /\ e[x] = 0)}
                     |-> e[k]], EntryKeys)

StringifyEntry(e) == StringifyKeys(e, EntryKeys)

\* JSON.stringify of an array of entries: the stored text.
JSONStringify(h) ==
    [kind |-> "array", items |-> [i \in 1..Len(h) |-> StringifyEntry(h[i])]]

\* The object a stored object text parses to.
ParseObject(pairs) ==
    [k \in {pairs[i][1] : i \in 1..Len(pairs)} |->
        pairs[CHOOSE i \in 1..Len(pairs) :
                /\ pairs[i][1] = k
                /\ \A j \in (i + 1)..Len(pairs) : pairs[j][1] # k][2]]

\* JSON.parse of a stored text: it throws on text that is not JSON; the value
\* is an array, or some other JSON value.
JSONParse(text) ==
    CASE text.kind = "array" ->
            [threw |-> FALSE, isArray |-> TRUE,
             value |-> [i \in 1..Len(text.items) |-> ParseObject(text.items[i])]]
      [] text.kind = "nonarray" ->
            [threw |-> FALSE, isArray |-> FALSE, value |-> <<>>]
      [] OTHER ->
            [threw |-> TRUE, isArray |-> FALSE, value |-> <<>>]

\* localStorage without the key 'transcription_history'.
NoKey == [kind |-> "absent", items |-> <<>>]

(************************ transcription client *****************************)
\* A complete result, as the response schema asks for it.
ValidResult ==
    [text |-> "Hola mundo",
     segments |-> <<[startTime |-> 0, endTime |-> 1500, text |-> "Hola"],
                    [startTime |-> 1500, endTime |-> 3000, text |-> "mundo"]>>]

\* What the service can answer: the call rejects, or it resolves with a
\* response whose text is not JSON or is a JSON object (complete, empty, or
\* with a segment that lacks endTime and text).
ServiceResponses ==
    <<[rejects |-> TRUE, kind |-> "none", obj |-> EmptyObj],
      [rejects |-> FALSE, kind |-> "invalid", obj |-> EmptyObj],
      [rejects |-> FALSE, kind |-> "object", obj |-> ValidResult],
      [rejects |-> FALSE, kind |-> "object", obj |-> EmptyObj],
      [rejects |-> FALSE, kind |-> "object",
       obj |-> [text |-> "Hola", segments |-> <<[startTime |-> 0]>>]]>>

\* Variant: the catch block logs and does not throw again, and no result
\* reaches the caller as a failure.
transcribeAudioSwallows(resp) ==
    [threw |-> FALSE,
     result |-> [k \in (DOMAIN resp.obj) \cap {"text", "segments"} |-> resp.obj[k]]]

\* transcribeAudio: awaits the call, parses response.text, and returns
\* { text: result.text, segments: result.segments }.  It throws when the call
\* rejects and when JSON.parse throws; it does not look at the fields of the
\* parsed object.
transcribeAudio(resp) ==
    IF resp.rejects \/ resp.kind = "invalid"
    THEN [threw |-> TRUE, result |-> EmptyObj]
    ELSE [threw |-> FALSE,
          result |-> [k \in (DOMAIN resp.obj) \cap {"text", "segments"} |-> resp.obj[k]]]

(****************************** App ****************************************)
TranscriptionError == "Error al procesar la transcripción profesional. Inténtalo de nuevo."
NotAudioError == "Selecciona un archivo de audio."
NoError == "null"

\* fileName ? `[Archivo: ${fileName}]\n${result.text}` : result.text
\* ("" stands for a fileName that was not passed; an undefined result.text
\* is written "undefined" by the template).
EntryTextKeys(result, fileName) ==
    IF fileName # "" \/ "text" \in DOMAIN result THEN {"text"} ELSE {}

EntryText(result, fileName) ==
    IF fileName # ""
    THEN "[Archivo: " \o fileName \o "]\n"
         \o (IF "text" \in DOMAIN result THEN result.text ELSE "undefined")
    ELSE result.text

\* Variant: the entry keeps the segments in reverse order.
NewEntryReversed(result, fileName, duration, audioUrl, t) ==
    [k \in {"id", "timestamp", "duration", "audioUrl"}
           \cup EntryTextKeys(result, fileName)
           \cup ((DOMAIN result) \cap {"segments"}) |->
        CASE k = "id" -> NumToString(t)
          [] k = "text" -> EntryText(result, fileName)
          [] k = "segments" ->
                [i \in 1..Len(result.segments) |->
                    result.segments[Len(result.segments) + 1 - i]]
          [] k = "timestamp" -> t
          [] k = "duration" -> duration
          [] OTHER -> audioUrl]

\* The newEntry literal of processTranscription; t is Date.now().
NewEntry(result, fileName, duration, audioUrl, t) ==
    [k \in {"id", "timestamp", "duration", "audioUrl"}
           \cup EntryTextKeys(result, fileName)
           \cup ((DOMAIN result) \cap {"segments"}) |->
        CASE k = "id" -> NumToString(t)
          [] k = "text" -> EntryText(result, fileName)
          [] k = "segments" -> result.segments
          [] k = "timestamp" -> t
          [] k = "duration" -> duration
          [] OTHER -> audioUrl]

\* Variant: the history of before the append is written.
PersistedTextOlder(updatedHistory) == JSONStringify(MapStrip(Tail(updatedHistory)))

\* The text written under the key by processTranscription.
PersistedText(updatedHistory) == JSONStringify(MapStrip(updatedHistory))

\* Variant: a parsed value that is not an array is taken as an array of one
\* item, [].concat(parsed).
LoadedHistoryWrapped(saved) ==
    IF saved.kind = "absent" THEN [set |-> FALSE, value |-> <<>>]
    ELSE LET parsed == JSONParse(saved)
         IN IF parsed.threw THEN [set |-> FALSE, value |-> <<>>]
            ELSE IF ~parsed.isArray THEN [set |-> TRUE, value |-> <<EmptyObj>>]
            ELSE [set |-> TRUE, value |-> MapStrip(parsed.value)]

\* The history the mount effect sets from the stored text; Unset when the
\* effect leaves the state alone (no key, or an exception that is caught).
\* parsed.map throws when parsed is not an array.
LoadedHistory(saved) ==
    IF saved.kind = "absent" THEN [set |-> FALSE, value |-> <<>>]
    ELSE LET parsed == JSONParse(saved)
         IN IF parsed.threw \/ ~parsed.isArray
            THEN [set |-> FALSE, value |-> <<>>]
            ELSE [set |-> TRUE, value |-> MapStrip(parsed.value)]

(***************************** state ***************************************)
VARIABLES
    history,          \* App: TranscriptionEntry[]
    status,           \* App: RecordingStatus
    currentEntry,     \* App: <<>> for null, <<e>> for the entry e
    error,            \* App: the message, or NoError
    currentTime,      \* App: playback time, in milliseconds as the segment times
    recordingTime,    \* AudioRecorder: the one-second counter
    mediaRecorderRef, \* AudioRecorder: the cycle whose recorder the ref holds, 0 for null
    timerRef,         \* AudioRecorder: the cycle whose interval the ref holds, 0 for null
    timers,           \* cycles whose interval is running
    streams,          \* cycles whose microphone stream has live tracks
    storage,          \* localStorage['transcription_history']
    now,              \* Date.now()
    urls,             \* object URLs created so far
    loaded,           \* the mount effect has run
    pickerOpen,       \* the file dialog of the hidden input is open
    cycles,           \* the recordings and uploads started, in order
    created,          \* entries loaded at startup or built since, newest first
    cleared,          \* the ids of the entries confirmed clears removed
    last              \* the handler that ran last (and the item it was given)

vars == <<history, status, currentEntry, error, currentTime, recordingTime,
          mediaRecorderRef, timerRef, timers, streams, storage, now, urls,
          loaded, pickerOpen, cycles, created, cleared, last>>

appVars == <<history, status, currentEntry, error, currentTime>>
recVars == <<recordingTime, mediaRecorderRef, timerRef, timers, streams>>
envVars == <<storage, now, urls, pickerOpen>>

\* An entry an earlier session persisted.
OldEntry ==
    [id |-> "1", text |-> "Hola", timestamp |-> 1, duration |-> 0,
     segments |-> <<[startTime |-> 0, endTime |-> 0, text |-> "Hola"]>>]

\* What the key can hold when the page opens.
InitialStorage ==
    <<NoKey,
      JSONStringify(<<OldEntry>>),
      [kind |-> "invalid", items |-> <<>>],
      [kind |-> "nonarray", items |-> <<>>]>>

Event(op, arg) == [op |-> op, arg |-> arg]

Init ==
    /\ history = <<>>
    /\ status = "idle"
    /\ currentEntry = <<>>
    /\ error = NoError
    /\ currentTime = 0
    /\ recordingTime = 0
    /\ mediaRecorderRef = 0
    /\ timerRef = 0
    /\ timers = {}
    /\ streams = {}
    /\ \E i \in 1..Len(InitialStorage) : storage = InitialStorage[i]
    /\ now = 2
    /\ urls = 0
    /\ loaded = FALSE
    /\ pickerOpen = FALSE
    /\ cycles = <<>>
    /\ created = <<>>
    /\ cleared = {}
    /\ last = Event("init", 0)

\* useEffect(..., []) of App: the history load.
LoadHistory ==
    /\ ~loaded
    /\ loaded' = TRUE
    /\ LET r == LoadedHistory(storage)
       IN /\ history' = IF r.set THEN r.value ELSE history
          /\ created' = IF r.set THEN r.value ELSE created
    /\ last' = Event("load", 0)
    /\ UNCHANGED <<status, currentEntry, error, currentTime, recVars, envVars,
                   cycles, cleared>>

(************************** AudioRecorder **********************************)
\* A cycle is one call of startRecording or one accepted upload.  It keeps
\* what the closures of that call captured at the render it was made in:
\* hist is `history' (through onRecordingComplete, or handleFileChange, to
\* processTranscription), rt is `recordingTime'.
\*   recording: mic -> recording -> stopping -> reading -> request -> done|failed
\*              mic -> denied | nostart
\*   upload:    reading -> request -> done|failed
Cycle(kind, phase, fileName, url) ==
    [kind |-> kind, phase |-> phase, hist |-> history, rt |-> recordingTime,
     fileName |-> fileName, url |-> url]

InPhase(kind, phase) ==
    {c \in 1..Len(cycles) : cycles[c].kind = kind /\ cycles[c].phase = phase}

SetPhase(c, phase) == [cycles EXCEPT ![c].phase = phase]

\* The user can use the page: it is mounted and no file dialog covers it.
PageUsable == loaded /\ ~pickerOpen

\* The record button's onClick while status is not 'recording' (the button
\* is disabled while 'processing'): startRecording up to its await.
ClickRecord ==
    /\ PageUsable
    /\ status \notin {"recording", "processing"}
    /\ Len(cycles) < MaxCycles
    /\ cycles' = Append(cycles, Cycle("recording", "mic", "", 0))
    /\ last' = Event("startRecording", 0)
    /\ UNCHANGED <<appVars, recVars, envVars, loaded, created, cleared>>

\* getUserMedia resolves: the rest of the try block of startRecording.
MicGranted(c) ==
    /\ c \in InPhase("recording", "mic")
    /\ cycles' = SetPhase(c, "recording")
    /\ mediaRecorderRef' = c
    /\ streams' = streams \cup {c}
    /\ status' = "recording"
    /\ recordingTime' = 0
    /\ timerRef' = c
    /\ timers' = timers \cup {c}
    /\ last' = Event("micGranted", 0)
    /\ UNCHANGED <<history, currentEntry, error, currentTime, envVars, loaded,
                   created, cleared>>

\* Variant: the catch block gives the control back with setStatus('idle').
MicDeniedIdle(c) ==
    /\ c \in InPhase("recording", "mic")
    /\ cycles' = SetPhase(c, "denied")
    /\ status' = "idle"
    /\ last' = Event("micDenied", 0)
    /\ UNCHANGED <<history, currentEntry, error, currentTime, recVars, envVars,
                   loaded, created, cleared>>

\* Variant: the catch block calls startRecording again.
MicDeniedRetries(c) ==
    /\ c \in InPhase("recording", "mic")
    /\ cycles' = IF Len(cycles) < MaxCycles
                 THEN Append(SetPhase(c, "denied"), Cycle("recording", "mic", "", 0))
                 ELSE SetPhase(c, "denied")
    /\ status' = "error"
    /\ last' = Event("micDenied", 0)
    /\ UNCHANGED <<history, currentEntry, error, currentTime, recVars, envVars,
                   loaded, created, cleared>>

\* getUserMedia rejects: the catch block of startRecording.
MicDenied(c) ==
    /\ c \in InPhase("recording", "mic")
    /\ cycles' = SetPhase(c, "denied")
    /\ status' = "error"
    /\ last' = Event("micDenied", 0)
    /\ UNCHANGED <<history, currentEntry, error, currentTime, recVars, envVars,
                   loaded, created, cleared>>

\* getUserMedia resolves but the capture cannot start: `new MediaRecorder'
\* throws (started is FALSE), or mediaRecorder.start() throws after the ref,
\* the status and the counter were set (started is TRUE); the catch block of
\* startRecording then sets 'error'.  The stream stays open: only onstop
\* stops its tracks.
CaptureFails(c, started) ==
    /\ c \in InPhase("recording", "mic")
    /\ cycles' = SetPhase(c, "nostart")
    /\ streams' = streams \cup {c}
    /\ mediaRecorderRef' = IF started THEN c ELSE mediaRecorderRef
    /\ recordingTime' = IF started THEN 0 ELSE recordingTime
    /\ status' = "error"
    /\ last' = Event("captureFailed", 0)
    /\ UNCHANGED <<history, currentEntry, error, currentTime, timerRef, timers,
                   envVars, loaded, created, cleared>>

\* The record button's onClick while status is 'recording': stopRecording.
\* The recorder the ref holds is the one the last grant started.
ClickStop ==
    /\ PageUsable
    /\ status = "recording"
    /\ mediaRecorderRef # 0
    /\ cycles[mediaRecorderRef].phase = "recording"
    /\ cycles' = SetPhase(mediaRecorderRef, "stopping")
    /\ timers' = timers \ {timerRef}
    /\ status' = "processing"
    /\ last' = Event("stopRecording", 0)
    /\ UNCHANGED <<history, currentEntry, error, currentTime, recordingTime,
                   mediaRecorderRef, timerRef, streams, envVars, loaded,
                   created, cleared>>

\* Variant: onstop stops the tracks and does not read the blob.
RecorderOnStopNoRead(c) ==
    /\ c \in InPhase("recording", "stopping")
    /\ cycles' = SetPhase(c, "dropped")
    /\ streams' = streams \ {c}
    /\ last' = Event("onstop", 0)
    /\ UNCHANGED <<appVars, recordingTime, mediaRecorderRef, timerRef, timers,
                   envVars, loaded, created, cleared>>

\* mediaRecorder.onstop: the blob is handed to a FileReader and the tracks of
\* the stream are stopped.
RecorderOnStop(c) ==
    /\ c \in InPhase("recording", "stopping")
    /\ cycles' = SetPhase(c, "reading")
    /\ streams' = streams \ {c}
    /\ last' = Event("onstop", 0)
    /\ UNCHANGED <<appVars, recordingTime, mediaRecorderRef, timerRef, timers,
                   envVars, loaded, created, cleared>>

\* The interval callback of a running timer: setRecordingTime(prev => prev + 1).
TimerTick(c) ==
    /\ c \in timers
    /\ recordingTime < MaxTicks
    /\ recordingTime' = recordingTime + 1
    /\ last' = Event("tick", 0)
    /\ UNCHANGED <<appVars, mediaRecorderRef, timerRef, timers, streams,
                   envVars, loaded, cycles, created, cleared>>

(***************************** App handlers ********************************)
\* reader.onloadend of onstop: onRecordingComplete(base64, mimeType,
\* recordingTime), that is handleRecordingComplete, which creates the object
\* URL and calls processTranscription; this is processTranscription up to
\* its await.
RecordingRead(c) ==
    /\ c \in InPhase("recording", "reading")
    /\ urls' = urls + 1
    /\ cycles' = [cycles EXCEPT ![c].phase = "request", ![c].url = urls + 1]
    /\ error' = NoError
    /\ status' = "processing"
    /\ last' = Event("processTranscription", 0)
    /\ UNCHANGED <<history, currentEntry, currentTime, recVars, storage, now,
                   pickerOpen, loaded, created, cleared>>

\* The upload button's onClick (the button is disabled unless status is
\* 'idle'): it opens the file dialog of the hidden input.
ClickUpload ==
    /\ PageUsable
    /\ status = "idle"
    /\ pickerOpen' = TRUE
    /\ last' = Event("openPicker", 0)
    /\ UNCHANGED <<appVars, recVars, storage, now, urls, loaded, cycles,
                   created, cleared>>

\* The files the dialog can give: none, an audio file, a text file, a file
\* whose type holds "audio/" after another top-level type, and a file of
\* unknown type (the empty string).
NoFile == [name |-> "", type |-> <<>>, none |-> TRUE]
ChosenFiles ==
    <<NoFile,
      [name |-> "a.mp3", none |-> FALSE,
       type |-> <<"a", "u", "d", "i", "o", "/", "m", "p", "3">>],
      [name |-> "n.txt", none |-> FALSE,
       type |-> <<"t", "e", "x", "t", "/", "x">>],
      [name |-> "v", none |-> FALSE,
       type |-> <<"x", "/", "a", "u", "d", "i", "o", "/">>],
      [name |-> "u", none |-> FALSE, type |-> <<>>]>>

\* What handleFileChange does with the file: "none" (no file), "reject" (not
\* audio), "read" (the URL is created and the read is started).
FileVerdict(file) ==
    IF file.none THEN "none"
    ELSE IF ~StartsWith(file.type, AudioPrefix) THEN "reject"
    ELSE "read"

\* The input's onChange: handleFileChange.
FileChosen(f) ==
    /\ loaded
    /\ pickerOpen
    /\ pickerOpen' = FALSE
    /\ LET file == ChosenFiles[f]
           verdict == FileVerdict(file)
       IN /\ verdict = "read" => Len(cycles) < MaxCycles
          /\ error' = IF verdict = "reject" THEN NotAudioError ELSE error
          /\ urls' = IF verdict = "read" THEN urls + 1 ELSE urls
          /\ cycles' = IF verdict = "read"
                       THEN Append(cycles, Cycle("upload", "reading", file.name, urls + 1))
                       ELSE cycles
          /\ last' = Event("fileChange", f)
    /\ UNCHANGED <<history, status, currentEntry, currentTime, recVars, storage,
                   now, loaded, created, cleared>>

\* reader.onload of handleFileChange: processTranscription(base64, file.type,
\* 0, audioUrl, file.name) up to its await.
FileRead(c) ==
    /\ c \in InPhase("upload", "reading")
    /\ cycles' = SetPhase(c, "request")
    /\ error' = NoError
    /\ status' = "processing"
    /\ last' = Event("processTranscription", 0)
    /\ UNCHANGED <<history, currentEntry, currentTime, recVars, envVars, loaded,
                   created, cleared>>

\* The duration processTranscription was called with.
CycleDuration(cy) == IF cy.kind = "recording" THEN cy.rt ELSE 0

\* Variant: the entries that were there lose their audioUrl.
UpdatedHistoryStripped(newEntry, capturedHistory) ==
    <<newEntry>> \o MapStrip(capturedHistory)

\* [newEntry, ...history], history being the one the closure captured.
UpdatedHistory(newEntry, capturedHistory) == <<newEntry>> \o capturedHistory

\* transcribeAudio settles: the rest of processTranscription.  Date.now() is
\* read once for the entry, and is later at each entry than at the one before.
TranscriptionSettled(c, r) ==
    /\ c \in InPhase("recording", "request") \cup InPhase("upload", "request")
    /\ LET cy == cycles[c]
           out == transcribeAudio(ServiceResponses[r])
           newEntry == NewEntry(out.result, cy.fileName, CycleDuration(cy),
                                cy.url, now)
           updatedHistory == UpdatedHistory(newEntry, cy.hist)
       IN IF out.threw
          THEN /\ error' = TranscriptionError
               /\ status' = "error"
               /\ cycles' = SetPhase(c, "failed")
               /\ last' = Event("settled", r)
               /\ UNCHANGED <<history, storage, currentEntry, now, created>>
          ELSE /\ history' = updatedHistory
               /\ storage' = PersistedText(updatedHistory)
               /\ currentEntry' = <<newEntry>>
               /\ status' = "idle"
               /\ now' = now + 1
               /\ created' = <<newEntry>> \o created
               /\ cycles' = SetPhase(c, "done")
               /\ last' = Event("settled", r)
               /\ UNCHANGED error
    /\ UNCHANGED <<currentTime, recVars, urls, pickerOpen, loaded, cleared>>

\* Variant: the test of the ids is the wrong way round.
SelectEntrySame(i) ==
    /\ PageUsable
    /\ i \in 1..Len(history)
    /\ currentEntry' = IF currentEntry # <<>> /\ currentEntry[1].id = history[i].id
                       THEN <<history[i]>>
                       ELSE currentEntry
    /\ last' = Event("select", i)
    /\ UNCHANGED <<history, status, error, currentTime, recVars, envVars, loaded,
                   cycles, created, cleared>>

\* onClick of the i-th item of the history list.
SelectEntry(i) ==
    /\ PageUsable
    /\ i \in 1..Len(history)
    /\ currentEntry' = IF currentEntry = <<>> \/ currentEntry[1].id # history[i].id
                       THEN <<history[i]>>
                       ELSE currentEntry
    /\ last' = Event("select", i)
    /\ UNCHANGED <<history, status, error, currentTime, recVars, envVars, loaded,
                   cycles, created, cleared>>

\* Variant: setCurrentEntry(null) is left out.
ClearHistoryKeepsCurrent(confirm) ==
    /\ PageUsable
    /\ Len(history) > 0
    /\ IF confirm
       THEN /\ history' = <<>>
            /\ storage' = NoKey
            /\ cleared' = cleared \cup {history[i].id : i \in 1..Len(history)}
            /\ last' = Event("clearConfirmed", 0)
            /\ UNCHANGED currentEntry
       ELSE /\ last' = Event("clearDeclined", 0)
            /\ UNCHANGED <<history, storage, currentEntry, cleared>>
    /\ UNCHANGED <<status, error, currentTime, recVars, now, urls, pickerOpen,
                   loaded, cycles, created>>

\* Variant: localStorage.removeItem is left out.
ClearHistoryKeepsKey(confirm) ==
    /\ PageUsable
    /\ Len(history) > 0
    /\ IF confirm
       THEN /\ history' = <<>>
            /\ currentEntry' = <<>>
            /\ cleared' = cleared \cup {history[i].id : i \in 1..Len(history)}
            /\ last' = Event("clearConfirmed", 0)
            /\ UNCHANGED storage
       ELSE /\ last' = Event("clearDeclined", 0)
            /\ UNCHANGED <<history, storage, currentEntry, cleared>>
    /\ UNCHANGED <<status, error, currentTime, recVars, now, urls, pickerOpen,
                   loaded, cycles, created>>

\* clearHistory: the button is rendered while the history is not empty;
\* confirm is the answer to window.confirm.
ClearHistory(confirm) ==
    /\ PageUsable
    /\ Len(history) > 0
    /\ IF confirm
       THEN /\ history' = <<>>
            /\ storage' = NoKey
            /\ currentEntry' = <<>>
            /\ cleared' = cleared \cup {history[i].id : i \in 1..Len(history)}
            /\ last' = Event("clearConfirmed", 0)
       ELSE /\ last' = Event("clearDeclined", 0)
            /\ UNCHANGED <<history, storage, currentEntry, cleared>>
    /\ UNCHANGED <<status, error, currentTime, recVars, now, urls, pickerOpen,
                   loaded, cycles, created>>

\* onTimeUpdate of the audio element, which is rendered while the current
\* entry has an audioUrl: setCurrentTime(audioRef.current.currentTime).
HandleTimeUpdate(t) ==
    /\ loaded
    /\ currentEntry # <<>>
    /\ "audioUrl" \in DOMAIN currentEntry[1]
    /\ currentTime' = t
    /\ last' = Event("timeUpdate", 0)
    /\ UNCHANGED <<history, status, currentEntry, error, recVars, envVars,
                   loaded, cycles, created, cleared>>

(************************ subtitles and playback ***************************)
\* String.prototype.padStart(n, '0')
RECURSIVE PadStart(_, _)
PadStart(str, n) == IF Len(str) >= n THEN str ELSE PadStart("0" \o str, n)

\* Date.prototype.getUTCMinutes, getUTCSeconds and getUTCMilliseconds of
\* new Date(t), t being a time value in milliseconds that is not negative.
getUTCMinutes(t) == (t \div 60000) % 60
getUTCSeconds(t) == (t \div 1000) % 60
getUTCMilliseconds(t) == t % 1000

\* Variant: the hours are read from the date, as the other fields are
\* (getUTCHours).
formatSRTTimeOfDay(t) ==
    PadStart(NumToString((t \div 3600000) % 24), 2) \o ":"
        \o PadStart(NumToString(getUTCMinutes(t)), 2) \o ":"
        \o PadStart(NumToString(getUTCSeconds(t)), 2) \o ","
        \o PadStart(NumToString(getUTCMilliseconds(t)), 3)

\* formatSRTTime(seconds), t being seconds * 1000: the hours are
\* Math.floor(seconds / 3600), the other fields are read from
\* new Date(seconds * 1000).
formatSRTTime(t) ==
    PadStart(NumToString(t \div 3600000), 2) \o ":"
        \o PadStart(NumToString(getUTCMinutes(t)), 2) \o ":"
        \o PadStart(NumToString(getUTCSeconds(t)), 2) \o ","
        \o PadStart(NumToString(getUTCMilliseconds(t)), 3)

\* formatSRTTime(seg[k]): a time that is undefined makes every field NaN.
SegmentTime(seg, k) ==
    IF k \in DOMAIN seg THEN formatSRTTime(seg[k]) ELSE "NaN:NaN:NaN,NaN"

\* `${i + 1}\n${formatSRTTime(seg.startTime)} --> ${formatSRTTime(seg.endTime)}\n${seg.text}\n`,
\* i being the index from 1.
SRTBlock(seg, i) ==
    NumToString(i) \o "\n"
        \o SegmentTime(seg, "startTime") \o " --> " \o SegmentTime(seg, "endTime")
        \o "\n" \o (IF "text" \in DOMAIN seg THEN seg.text ELSE "undefined") \o "\n"

\* Array.prototype.join
RECURSIVE Join(_, _)
Join(strs, sep) ==
    IF strs = <<>> THEN ""
    ELSE IF Len(strs) = 1 THEN strs[1]
    ELSE strs[1] \o sep \o Join(Tail(strs), sep)

\* exportToSRT(entry): <<>> when it returns at once, else the file that is
\* downloaded.
exportToSRT(entry) ==
    IF "segments" \notin DOMAIN entry THEN <<>>
    ELSE <<[download |-> "subtitulos_" \o entry.id \o ".srt",
            content |-> Join([i \in 1..Len(entry.segments) |->
                                 SRTBlock(entry.segments[i], i)], "\n")]>>

\* onClick of the 'Exportar SRT' button of the current entry.  No state of
\* the page changes; the download is kept with the handler that ran.
ExportToSRT ==
    /\ PageUsable
    /\ currentEntry # <<>>
    /\ last' = Event("exportToSRT", exportToSRT(currentEntry[1]))
    /\ UNCHANGED <<appVars, recVars, envVars, loaded, cycles, created, cleared>>

\* Variant: the end of the segment is not part of it.
isSegmentActiveHalfOpen(seg) ==
    /\ {"startTime", "endTime"} \subseteq DOMAIN seg
    /\ currentTime >= seg.startTime
    /\ currentTime < seg.endTime

\* isSegmentActive(seg); a comparison with undefined is false.
isSegmentActive(seg) ==
    /\ {"startTime", "endTime"} \subseteq DOMAIN seg
    /\ currentTime >= seg.startTime
    /\ currentTime <= seg.endTime

\* The indexes of the segments of the current entry that are rendered as
\* active.
ActiveSegments ==
    IF currentEntry = <<>> \/ "segments" \notin DOMAIN currentEntry[1] THEN {}
    ELSE {i \in 1..Len(currentEntry[1].segments) :
             isSegmentActive(currentEntry[1].segments[i])}

Next ==
    \/ LoadHistory
    \/ ClickRecord
    \/ \E c \in 1..Len(cycles) : MicGranted(c)
    \/ \E c \in 1..Len(cycles) : MicDenied(c)
    \/ \E c \in 1..Len(cycles), started \in BOOLEAN : CaptureFails(c, started)
    \/ ClickStop
    \/ \E c \in 1..Len(cycles) : RecorderOnStop(c)
    \/ \E c \in timers : TimerTick(c)
    \/ \E c \in 1..Len(cycles) : RecordingRead(c)
    \/ ClickUpload
    \/ \E f \in 1..Len(ChosenFiles) : FileChosen(f)
    \/ \E c \in 1..Len(cycles) : FileRead(c)
    \/ \E c \in 1..Len(cycles), r \in 1..Len(ServiceResponses) :
          TranscriptionSettled(c, r)
    \/ \E i \in 1..Len(history) : SelectEntry(i)
    \/ \E confirm \in BOOLEAN : ClearHistory(confirm)
    \/ \E t \in 0..MaxTime : HandleTimeUpdate(t)

Spec == Init /\ [][Next]_vars

\* The browser dispatches the stop event of a stopped recorder and the load
\* events of the readers, and the service answers every request: none of
\* these steps stays possible for ever without being taken.  Nothing is
\* asked of the user.
FairSpec ==
    /\ Spec
    /\ WF_vars(\E c \in 1..Len(cycles) : RecorderOnStop(c))
    /\ WF_vars(\E c \in 1..Len(cycles) : RecordingRead(c))
    /\ WF_vars(\E c \in 1..Len(cycles) : FileRead(c))
    /\ WF_vars(\E c \in 1..Len(cycles), r \in 1..Len(ServiceResponses) :
                  TranscriptionSettled(c, r))

(*************************** the transcript view ***************************)
\* The page after one recording was transcribed, for the answers below: the
\* entry is the current entry and its audio is played and its subtitles are
\* exported.
\* Segment times: 0 s, 1.5 s, 3 s, 1 h 1 min 1.001 s, 25 h 1 min 1.001 s
\* and 100 h.
SegmentTimes == {0, 1500, 3000, 3661001, 90061001, 360000000}

\* Segments over these times, one of them with its end before its start.
ViewerSegments ==
    {[startTime |-> ab[1], endTime |-> ab[2], text |-> "Hola"] :
        ab \in {x \in SegmentTimes \X SegmentTimes : x[1] <= x[2]}}
    \cup {[startTime |-> 3000, endTime |-> 1500, text |-> "Hola"]}

\* Answers apart from those over ViewerSegments: the complete result, an
\* object without segments, and one with a segment that lacks endTime and
\* text.
OtherAnswers == <<ServiceResponses[3].obj, ServiceResponses[4].obj,
                  ServiceResponses[5].obj>>

\* Times the audio element reports: the segment times and times next to them.
PlaybackTimes == SegmentTimes \cup {1499, 1501, 3001}

ViewerInitFor(answer) ==
    LET entry == NewEntry(answer, "", 0, 1, 2)
    IN /\ history = <<entry>>
       /\ status = "idle"
       /\ currentEntry = <<entry>>
       /\ error = NoError
       /\ currentTime = 0
       /\ recordingTime = 0
       /\ mediaRecorderRef = 1
       /\ timerRef = 1
       /\ timers = {}
       /\ streams = {}
       /\ storage = PersistedText(<<entry>>)
       /\ now = 3
       /\ urls = 1
       /\ loaded = TRUE
       /\ pickerOpen = FALSE
       /\ cycles = <<[kind |-> "recording", phase |-> "done", hist |-> <<>>,
                      rt |-> 0, fileName |-> "", url |-> 1]>>
       /\ created = <<entry>>
       /\ cleared = {}
       /\ last = Event("settled", 0)

ViewerInit ==
    \/ \E n \in 0..MaxSegments : \E segs \in [1..n -> ViewerSegments] :
          ViewerInitFor([text |-> "Hola", segments |-> segs])
    \/ \E a \in 1..Len(OtherAnswers) : ViewerInitFor(OtherAnswers[a])

ViewerNext ==
    \/ ExportToSRT
    \/ \E t \in PlaybackTimes : HandleTimeUpdate(t)

ViewerSpec == ViewerInit /\ [][ViewerNext]_vars

(***************************************************************************)
(*                              Properties                                 *)
(***************************************************************************)
\* Cycles whose transcription request is pending.
Requests == InPhase("recording", "request") \cup InPhase("upload", "request")

\* Cycles whose recorder is recording.
ActiveRecordings == InPhase("recording", "recording")

\* The entries of the stored array (none when the key holds no array).
PersistedEntries == IF storage.kind = "array" THEN JSONParse(storage).value ELSE <<>>

\* a is a subsequence of b: the elements of a are in b, in the same order.
RECURSIVE IsSubseq(_, _)
IsSubseq(a, b) ==
    IF a = <<>> THEN TRUE
    ELSE IF b = <<>> THEN FALSE
    ELSE IF Head(a) = Head(b) THEN IsSubseq(Tail(a), Tail(b))
    ELSE IsSubseq(a, Tail(b))

\* The response cannot be used: the call rejects, or the text is not JSON.
Unusable(r) == ServiceResponses[r].rejects \/ ServiceResponses[r].kind = "invalid"

\* The object has text and segments, and each segment has its three fields.
ConformsToSchema(obj) ==
    /\ {"text", "segments"} \subseteq DOMAIN obj
    /\ \A i \in 1..Len(obj.segments) :
          {"startTime", "endTime", "text"} \subseteq DOMAIN obj.segments[i]

\* The response text is not JSON, or is an object that violates the schema.
SchemaViolating(r) ==
    /\ ~ServiceResponses[r].rejects
    /\ \/ ServiceResponses[r].kind = "invalid"
       \/ ServiceResponses[r].kind = "object" /\ ~ConformsToSchema(ServiceResponses[r].obj)

\* The top-level type of a MIME type: the characters before the first "/".
RECURSIVE TopLevelType(_)
TopLevelType(type) ==
    IF type = <<>> \/ Head(type) = "/" THEN <<>>
    ELSE <<Head(type)>> \o TopLevelType(Tail(type))

\* The f-th file is a file, and not an audio file.
NonAudioFile(f) ==
    /\ ~ChosenFiles[f].none
    /\ \/ TopLevelType(ChosenFiles[f].type) # <<"a", "u", "d", "i", "o">>
       \/ Len(ChosenFiles[f].type) <= 5

\* C1 as stated: the status moves only along idle->recording,
\* recording->processing, processing->idle, recording->error and
\* processing->error, and leaves error only by a recording the user starts.
C1_StatusGraphAsStated ==
    [][\/ status' = status
       \/ <<status, status'>> \in
             {<<"idle", "recording">>, <<"recording", "processing">>,
              <<"processing", "idle">>, <<"recording", "error">>,
              <<"processing", "error">>, <<"error", "recording">>}]_vars

\* C1 (amended): each status is set by its own handlers only.  'recording' is
\* set only when the microphone is granted; 'processing' only by stopRecording
\* (and then from 'recording') or when processTranscription starts (after a
\* recording or an uploaded file is read); 'idle' only when a transcription
\* settles with a usable response; 'error' only when the microphone is
\* denied, the capture cannot start, or a transcription settles with an
\* unusable response.
C1_StatusSetByHandler ==
    [][status' # status =>
          \/ status' = "recording" /\ last'.op = "micGranted"
          \/ status' = "processing"
                /\ \/ last'.op = "stopRecording" /\ status = "recording"
                   \/ last'.op = "processTranscription"
          \/ status' = "idle" /\ last'.op = "settled" /\ ~Unusable(last'.arg)
          \/ status' = "error"
                /\ \/ last'.op = "micDenied"
                   \/ last'.op = "captureFailed"
                   \/ last'.op = "settled" /\ Unusable(last'.arg)]_vars

\* An upload alone has taken the status from 'idle' to 'processing'.
C1_Witness ==
    /\ Len(cycles) = 1
    /\ cycles[1].kind = "upload"
    /\ cycles[1].phase = "request"
    /\ status = "processing"
    /\ last.op = "processTranscription"

\* C2: at most one request is pending, no request is pending while a recorder
\* records, and at most one recorder records.
C2_OneCycleInFlight ==
    /\ Cardinality(Requests) <= 1
    /\ Requests = {} \/ ActiveRecordings = {}
    /\ Cardinality(ActiveRecordings) <= 1

\* C3: while no clear has been confirmed, every entry loaded at startup or
\* created since is in the history and in the stored array, newest first.
C3_EntriesKept ==
    (loaded /\ cleared = {}) =>
        /\ IsSubseq(created, history)
        /\ IsSubseq(MapStrip(created), PersistedEntries)

\* C4: a confirmed clear empties the history, removes the key and sets the
\* current entry to null; a declined one changes none of the three.
C4_ClearHistory ==
    [][/\ last'.op = "clearConfirmed" =>
             history' = <<>> /\ storage' = NoKey /\ currentEntry' = <<>>
       /\ last'.op = "clearDeclined" =>
             UNCHANGED <<history, storage, currentEntry>>]_vars

\* A clear was confirmed after entries had been loaded or created.
C4_Witness ==
    /\ last.op = "clearConfirmed"
    /\ created # <<>>
    /\ history = <<>>
    /\ storage = NoKey

\* C5: no object of the stored array has the key audioUrl.
C5_NoPersistedHandle ==
    \A i \in 1..Len(storage.items) :
        \A j \in 1..Len(storage.items[i]) : storage.items[i][j][1] # "audioUrl"

\* The stored array was written from a history whose entries hold handles.
C5_Witness ==
    /\ storage.kind = "array"
    /\ Len(history) = 2
    /\ storage = PersistedText(history)
    /\ \A i \in 1..2 : "audioUrl" \in DOMAIN history[i]

\* C6: the history persisted and then loaded is the same sequence of entries,
\* each with the same id, text, segments, timestamp and duration (or without
\* it, where the entry has none) and without audioUrl.
C6_RoundTrip ==
    LET r == LoadedHistory(PersistedText(history))
    IN /\ history # <<>> => r.set
       /\ Len(r.value) = Len(history)
       /\ \A i \in 1..Len(history) :
             /\ "audioUrl" \notin DOMAIN r.value[i]
             /\ \A k \in {"id", "text", "segments", "timestamp", "duration"} :
                   /\ k \in DOMAIN history[i] <=> k \in DOMAIN r.value[i]
                   /\ k \in DOMAIN history[i] => r.value[i][k] = history[i][k]

\* The history holds an entry with a handle and an entry without text.
C6_Witness ==
    /\ Len(history) >= 2
    /\ \E i \in 1..Len(history) : "audioUrl" \in DOMAIN history[i]
    /\ \E i \in 1..Len(history) : "text" \notin DOMAIN history[i]
    /\ \E i \in 1..Len(history) : history[i].duration = 0

\* C7: when the call rejects or the response text is not JSON, the status
\* becomes 'error', the fixed message is set, the history, the stored key and
\* the current entry are left as they are, and no request is issued: the
\* failed one is gone and no cycle is added.
C7_FailureLeavesNoEntry ==
    [][(last'.op = "settled" /\ Unusable(last'.arg)) =>
          /\ status' = "error"
          /\ error' = TranscriptionError
          /\ UNCHANGED <<history, storage, currentEntry>>
          /\ Len(cycles') = Len(cycles)
          /\ Cardinality(Requests') = Cardinality(Requests) - 1]_vars

\* A transcription has failed while the history held entries.
C7_Witness ==
    /\ last.op = "settled"
    /\ Unusable(last.arg)
    /\ status = "error"
    /\ history # <<>>
    /\ currentEntry # <<>>

\* C8: a response that is not JSON, or that violates the schema, makes the
\* status 'error' and leaves the history and the stored key as they are.
C8_SchemaViolationFails ==
    [][(last'.op = "settled" /\ SchemaViolating(last'.arg)) =>
          /\ status' = "error"
          /\ UNCHANGED <<history, storage>>]_vars

\* C9: a file that is not audio sets the message and leaves the status, the
\* history, the stored key and the current entry as they are; no read is
\* started and no request is issued (no cycle is added or moved), and no
\* object URL is created.
C9_NonAudioRejected ==
    [][(last'.op = "fileChange" /\ NonAudioFile(last'.arg)) =>
          /\ error' = NotAudioError
          /\ UNCHANGED <<status, history, storage, currentEntry, cycles, urls>>]_vars

\* A file that is not audio was chosen while the history held entries.
C9_Witness ==
    /\ last.op = "fileChange"
    /\ NonAudioFile(last.arg)
    /\ error = NotAudioError
    /\ history # <<>>

\* C10: a click on the history item that has the id of the current entry
\* changes neither the current entry nor the playback time; a click on an
\* item with another id (or while no entry is current) makes it current.
C10_SelectEntry ==
    [][last'.op = "select" =>
          IF currentEntry # <<>> /\ currentEntry[1].id = history[last'.arg].id
          THEN UNCHANGED <<currentEntry, currentTime>>
          ELSE currentEntry' = <<history[last'.arg]>>]_vars

\* The current entry, with its handle, was clicked again during playback.
C10_Witness ==
    /\ last.op = "select"
    /\ currentEntry # <<>>
    /\ currentEntry[1] = history[last.arg]
    /\ "audioUrl" \in DOMAIN currentEntry[1]
    /\ currentTime > 0
    /\ Len(history) >= 2

\* C11: when a recording is stopped, the duration its completion callback is
\* invoked with (the recordingTime its onstop closure holds) is the value of
\* the one-second counter at the stop, that is the ticks of that recording.
C11_DurationIsElapsed ==
    [][last'.op = "stopRecording" =>
          CycleDuration(cycles'[mediaRecorderRef]) = recordingTime]_vars

\* A capture attempt that failed: access was denied, or the capture could not
\* start.
FailedAttempts == InPhase("recording", "denied") \cup InPhase("recording", "nostart")

\* C12: when access is denied or the capture cannot start, the status becomes
\* 'error', no request is issued, no entry is appended or persisted, no timer
\* is started and no other attempt is begun; the failed attempt stays as it
\* is for good (its callback is never invoked); and an attempt begins only
\* with a click on the record button.
C12_FailedCaptureStops ==
    [][/\ last'.op \in {"micDenied", "captureFailed"} =>
             /\ status' = "error"
             /\ Cardinality(FailedAttempts') = Cardinality(FailedAttempts) + 1
             /\ Requests' = Requests
             /\ Len(cycles') = Len(cycles)
             /\ UNCHANGED <<history, storage, currentEntry, timers, timerRef>>
       /\ \A c \in FailedAttempts :
             c \in FailedAttempts' /\ cycles'[c] = cycles[c]
       /\ InPhase("recording", "mic")' \subseteq InPhase("recording", "mic")
             \/ last'.op = "startRecording"]_vars

\* After a denied attempt the user clicked again, and that capture could not
\* start either; the history holds an entry.
C12_Witness ==
    /\ last.op = "captureFailed"
    /\ status = "error"
    /\ InPhase("recording", "denied") # {}
    /\ InPhase("recording", "nostart") # {}
    /\ history # <<>>
    /\ Requests = {}

\* The segments of an object and those of another are the same array, or
\* both objects have none.
SameSegments(a, b) ==
    /\ "segments" \in DOMAIN a <=> "segments" \in DOMAIN b
    /\ "segments" \in DOMAIN a =>
          /\ Len(a.segments) = Len(b.segments)
          /\ \A i \in 1..Len(a.segments) : a.segments[i] = b.segments[i]

\* C13: when a transcription completes, the entry put at the head of the
\* history and the object at the head of the stored array have the segments
\* of the service response (same length, order and fields), and the entry
\* becomes the current entry.
C13_SegmentsAsAnswered ==
    [][(last'.op = "settled" /\ ~Unusable(last'.arg)) =>
          LET answer == ServiceResponses[last'.arg].obj
          IN /\ Len(history') >= 1
             /\ SameSegments(history'[1], answer)
             /\ storage'.kind = "array"
             /\ Len(storage'.items) = Len(history')
             /\ SameSegments(ParseObject(storage'.items[1]), answer)
             /\ currentEntry' = <<history'[1]>>
             /\ history'[1].id \notin {created[i].id : i \in 1..Len(created)}]_vars

\* The complete answer, with its two segments, has become the second entry
\* of the history.
C13_Witness ==
    /\ last.op = "settled"
    /\ ServiceResponses[last.arg].obj = ValidResult
    /\ Len(history) = 2
    /\ Len(history[1].segments) = 2
    /\ currentEntry = <<history[1]>>

\* Every segment has its two times and its text.
WellFormed(segs) ==
    \A i \in 1..Len(segs) : DOMAIN segs[i] = {"startTime", "endTime", "text"}

\* The decimal digits of v, with zeros in front up to w digits.
RECURSIVE DecimalField(_, _)
DecimalField(v, w) ==
    IF v < 10 /\ w <= 1 THEN Digits[v + 1]
    ELSE DecimalField(v \div 10, w - 1) \o Digits[(v % 10) + 1]

\* HH:MM:SS,mmm of m whole milliseconds.
Timecode(m) ==
    DecimalField(m \div 3600000, 2) \o ":" \o DecimalField((m \div 60000) % 60, 2)
        \o ":" \o DecimalField((m \div 1000) % 60, 2)
        \o "," \o DecimalField(m % 1000, 3)

\* The blocks of the segments from the i-th on, a blank line between two.
RECURSIVE SubtitleBlocks(_, _)
SubtitleBlocks(segs, i) ==
    IF i > Len(segs) THEN ""
    ELSE DecimalField(i, 1) \o "\n"
         \o Timecode(segs[i].startTime) \o " --> " \o Timecode(segs[i].endTime) \o "\n"
         \o segs[i].text \o "\n"
         \o (IF i < Len(segs) THEN "\n" ELSE "")
         \o SubtitleBlocks(segs, i + 1)

C15_ActiveInClosedInterval ==
    (currentEntry # <<>> /\ "segments" \in DOMAIN currentEntry[1]) =>
        \A i \in 1..Len(currentEntry[1].segments) :
            LET seg == currentEntry[1].segments[i]
            IN DOMAIN seg = {"startTime", "endTime", "text"} =>
                  /\ i \notin ActiveSegments <=>
                        (currentTime < seg.startTime \/ seg.endTime < currentTime)
                  /\ seg.startTime = seg.endTime =>
                        (i \in ActiveSegments <=> currentTime = seg.startTime)

\* The playback is at the time where the first segment ends and the second
\* starts, the second having no length: both are active.
C15_Witness ==
    /\ last.op = "timeUpdate"
    /\ currentTime = 1500
    /\ "segments" \in DOMAIN currentEntry[1]
    /\ Len(currentEntry[1].segments) = 2
    /\ currentEntry[1].segments[1].endTime = 1500
    /\ currentEntry[1].segments[1].startTime = 0
    /\ currentEntry[1].segments[2].startTime = 1500
    /\ currentEntry[1].segments[2].endTime = 1500
    /\ ActiveSegments = {1, 2}

\* C16 as stated: an entry of the history that has an audioUrl is the current
\* entry (the entry created or selected last).
C16_HandleOnCurrentOnly ==
    \A i \in 1..Len(history) :
        "audioUrl" \in DOMAIN history[i] =>
            currentEntry # <<>> /\ currentEntry[1].id = history[i].id

\* C16 (amended): an entry of the history has an audioUrl exactly when it was
\* created since the page was opened (an entry loaded at startup has none),
\* whether it is the current entry or not; two entries never have the same
\* audioUrl.
C16_HandleOnSessionEntries ==
    /\ \A i \in 1..Len(history) :
          "audioUrl" \in DOMAIN history[i] <=> history[i].id # OldEntry.id
    /\ \A i, j \in 1..Len(history) :
          (i # j /\ {i, j} \subseteq {k \in 1..Len(history) : "audioUrl" \in DOMAIN history[k]})
              => history[i].audioUrl # history[j].audioUrl

\* Two entries were created, both have their audioUrl, and the older one
\* was selected.
C16_Witness ==
    /\ Len(history) = 2
    /\ \A i \in 1..2 : "audioUrl" \in DOMAIN history[i]
    /\ currentEntry = <<history[2]>>
    /\ last.op = "select"

\* C17: whenever the status is 'processing', it is 'idle' or 'error' at some
\* later time.
C17_ProcessingResolves ==
    (status = "processing") ~> (status \in {"idle", "error"})

\* A recording was stopped and its request settled: the status went from
\* 'processing' to 'idle'.
C17_Witness ==
    /\ last.op = "settled"
    /\ status = "idle"
    /\ InPhase("recording", "done") # {}
    /\ InPhase("upload", "failed") # {}

\* C18: when the key is absent, or holds text that is not JSON or JSON that
\* is not an array, the load leaves the history empty, the status 'idle',
\* the current entry null and no message, and does not touch the key.
C18_LoadFailureIsSilent ==
    [][(last'.op = "load" /\ storage.kind # "array") =>
          /\ history' = <<>>
          /\ status' = "idle"
          /\ currentEntry' = <<>>
          /\ error' = NoError
          /\ loaded'
          /\ UNCHANGED storage]_vars

\* The page was opened on a key that holds JSON that is not an array.
C18_Witness ==
    /\ last.op = "load"
    /\ storage.kind = "nonarray"
    /\ loaded
    /\ history = <<>>
    /\ status = "idle"

\* C19 as stated: once the load has run, the key is absent or holds an empty
\* array exactly when the history is empty, and otherwise holds the entries
\* of the history, in their order, without audioUrl.
C19_StorageAgrees ==
    loaded =>
        /\ history = <<>> <=>
              \/ storage.kind = "absent"
              \/ storage.kind = "array" /\ storage.items = <<>>
        /\ history # <<>> =>
              storage.kind = "array" /\ PersistedEntries = MapStrip(history)

\* C19 (amended): once the load has run, either the key holds text that
\* cannot be loaded (not JSON, or not an array) and the history is empty, or
\* the key and the history agree as stated.
C19_StorageAgreesOrUnloadable ==
    loaded =>
        IF storage.kind \in {"invalid", "nonarray"} THEN history = <<>>
        ELSE /\ history = <<>> <=>
                   \/ storage.kind = "absent"
                   \/ storage.kind = "array" /\ storage.items = <<>>
             /\ history # <<>> =>
                   storage.kind = "array" /\ PersistedEntries = MapStrip(history)

\* Two entries were created since the page was opened and no clear was
\* confirmed: the key holds both.
C19_Witness ==
    /\ loaded
    /\ Len(history) = 2
    /\ history[2].id # OldEntry.id
    /\ storage.kind = "array"
    /\ Len(storage.items) = 2
    /\ cleared = {}

\* C20: no entry of the history, and no object of the stored array, has the
\* id of an entry that a confirmed clear removed.
C20_ClearedStayGone ==
    /\ \A i \in 1..Len(history) : history[i].id \notin cleared
    /\ \A i \in 1..Len(PersistedEntries) : PersistedEntries[i].id \notin cleared

\* C21: the current entry is null, or an entry of the history has its id.
C21_CurrentEntryInHistory ==
    currentEntry = <<>>
        \/ \E i \in 1..Len(history) : history[i].id = currentEntry[1].id

\* Two cycles that started from the same history have both completed, a
\* clear was confirmed on the way, and the entry of the cycle that completed
\* last is the current entry and the head of the history.
C21_Witness ==
    /\ last.op = "settled"
    /\ Len(cycles) = 2
    /\ cycles[1].phase = "done"
    /\ cycles[2].phase = "done"
    /\ cycles[1].hist = cycles[2].hist
    /\ currentEntry # <<>>
    /\ currentEntry[1] = history[1]
    /\ cleared # {}

\* C22: at most one stream is open and at most one timer runs; a stream is
\* open only while the status is 'recording' or until the stop event of a
\* recorder that was stopped; a timer runs only while the status is
\* 'recording', and it is the one the ref holds, for the recorder the ref
\* holds; while the status is 'idle' or 'error' no stream is open and no
\* timer runs; and every recorder that records is the one the stop control
\* stops.
C22_OneCaptureHeld ==
    /\ Cardinality(streams) <= 1
    /\ Cardinality(timers) <= 1
    /\ \A c \in streams :
          status = "recording" \/ cycles[c].phase = "stopping"
    /\ timers # {} =>
          status = "recording" /\ timers = {timerRef} /\ timerRef = mediaRecorderRef
    /\ status \in {"idle", "error"} => streams = {} /\ timers = {}
    /\ \A c \in ActiveRecordings : status = "recording" /\ mediaRecorderRef = c

====
